---- MODULE Spec2Model ----
(***************************************************************************)
(* LibOS: keyboard event simulation / query over three platform backends   *)
(* (X11/XTest, Win32, Carbon/IOKit) and the semantic version value type.   *)
(*                                                                         *)
(* A key combination is modelled as the sequence in which its container    *)
(* is iterated: the std::vector of include/os/keyboard.hpp (X11, Win32)    *)
(* may hold duplicates, the std::unordered_set of the Carbon/IOKit build   *)
(* holds no duplicates and is iterated in an unspecified order.            *)
(***************************************************************************)
EXTENDS Integers, Sequences, FiniteSets, TLC

VARIABLES
    backend,    \* platform family the build was compiled for
    env,        \* what the platform offers: X server, keymap, HID devices
    display,    \* display_handler: "unopened" | "open" | "null" | "closed"
    hidBuilt,   \* HIDInputManager singleton constructed
    keys,       \* HIDInputManager::keys, the cached Virtual Keys
    down,       \* live input state: native codes that are down
    injected,   \* native key events injected by the last operation
    calls,      \* native calls made by the last operation
    raised,     \* "none" | "fault" (process killed) | "out_of_range" (thrown)
                \* | "xerror" (Xlib's error handler ended the process)
    xerror,     \* an X protocol error is on its way to this client
    op,         \* last operation
    arg,        \* combination passed to the last operation
    retBool,    \* value returned by the last operation, if is_pressed
    retCombo,   \* value returned by the last operation, if pressed_keys
    verA,       \* left operand of a version comparison
    verB,       \* right operand of a version comparison
    verRes,     \* results of the comparison operators
    caller,     \* the caller's combination object after the last operation
    vsFrom,     \* what the version round trip starts from: "string" | "version"
    vsPc,       \* steps of the round trip taken
    vsStr,      \* the string: given, or rendered by str()
    vsVer,      \* the version: given, or constructed from the string
    vsStr2,     \* str() of the constructed version
    vsVer2,     \* the version constructed from the rendered string
    infoInit,   \* os::info(): static bool init
    infoRec,    \* os::info(): static info_t i
    infoReads,  \* times the underlying source was read
    infoCalls,  \* calls of os::info(), direct or through an accessor
    infoRet,    \* copy of the record the last call returned
    infoOp,     \* last call: "info" or the accessor that delegated to it
    cmbA,       \* operands of combination::operator+
    cmbB,
    cmbC,
    cmbRes,     \* results of the operator+ expressions evaluated
    cPc,        \* kernel::info(): where each calling thread is
    cInit,      \* kernel::info(): static bool init
    cRec,       \* kernel::info(): the fields of static info_t i
    cRuns,      \* times the initialization body was entered
    emCombo,    \* combination handed to extract_modifiers
    emNew,      \* result of extract_modifiers, current revision
    emOld,      \* result of extract_modifiers, older revision
    wnVer,      \* i.version when the ladder is reached
    wnName,     \* i.pretty_name after the ladder
    hkBoards,   \* attached keyboards in enumeration order: the keys each reports
    hkDown,     \* keys held down, per attached keyboard
    hkPc,       \* HIDInputManager singleton: unbuilt, built or destroyed
    hkCache,    \* HIDInputManager::keys: Virtual Key -> keyboard of its element
    hkRefs,     \* references this process holds, per handle
    hkArg,      \* key of the last is_pressed
    hkRet       \* result of is_pressed, if it was the last step

kbVars == <<backend, env, display, hidBuilt, keys, down, injected, calls,
            raised, xerror, op, arg, retBool, retCombo, caller>>
verVars == <<verA, verB, verRes>>
strVars == <<vsFrom, vsPc, vsStr, vsVer, vsStr2, vsVer2>>
infoVars == <<infoInit, infoRec, infoReads, infoCalls, infoRet, infoOp>>
cmbVars == <<cmbA, cmbB, cmbC, cmbRes>>
concVars == <<cPc, cInit, cRec, cRuns>>
modVars == <<emCombo, emNew, emOld>>
winVars == <<wnVer, wnName>>
hidVars == <<hkBoards, hkDown, hkPc, hkCache, hkRefs, hkArg, hkRet>>
nonKbVars == <<verVars, strVars, infoVars, cmbVars, concVars, modVars, winVars, hidVars>>
nonVerVars == <<kbVars, strVars, infoVars, cmbVars, concVars, modVars, winVars, hidVars>>
nonStrVars == <<kbVars, verVars, infoVars, cmbVars, concVars, modVars, winVars, hidVars>>
nonInfoVars == <<kbVars, verVars, strVars, cmbVars, concVars, modVars, winVars, hidVars>>
nonCmbVars == <<kbVars, verVars, strVars, infoVars, concVars, modVars, winVars, hidVars>>
nonConcVars == <<kbVars, verVars, strVars, infoVars, cmbVars, modVars, winVars, hidVars>>
nonModVars == <<kbVars, verVars, strVars, infoVars, cmbVars, concVars, winVars, hidVars>>
nonWinVars == <<kbVars, verVars, strVars, infoVars, cmbVars, concVars, modVars, hidVars>>
nonHidVars == <<kbVars, verVars, strVars, infoVars, cmbVars, concVars, modVars, winVars>>
vars == <<backend, env, display, hidBuilt, keys, down, injected, calls,
          raised, xerror, op, arg, retBool, retCombo, caller,
          verA, verB, verRes,
          vsFrom, vsPc, vsStr, vsVer, vsStr2, vsVer2,
          infoInit, infoRec, infoReads, infoCalls, infoRet, infoOp,
          cmbA, cmbB, cmbC, cmbRes, cPc, cInit, cRec, cRuns,
          emCombo, emNew, emOld,
          wnVer, wnName,
          hkBoards, hkDown, hkPc, hkCache, hkRefs, hkArg, hkRet>>

----------------------------------------------------------------------------
(* Bounds *)

MaxLen == 2
MaxField == 2
MaxStr == 5
MaxCalls == 3
NumThreads == 2

----------------------------------------------------------------------------
(* Virtual key values, per platform family *)

X11_A == 65
X11_Super_R == 65516

WIN_A == 65
WIN_Shift_L == 160

MAC_A == 0
MAC_Shift_L == 56
MAC_Shift_R == 60
MAC_Control_L == 59
MAC_Control_R == 62
MAC_Option_L == 58
MAC_Option_R == 61
MAC_Command_L == 55
MAC_Command_R == 54
MAC_Function == 63

\* enum class vk: the canonical enumerators that have an alias
vk_canonical(b) ==
    CASE b = "x11" ->
            [Shift_L |-> 65505, Control_L |-> 65507, Caps_Lock |-> 65509,
             Return |-> 65293, Escape |-> 65307, Delete |-> 65535]
      [] b = "win32" ->
            [Shift_L |-> WIN_Shift_L, Control_L |-> 162, Caps_Lock |-> 20,
             Return |-> 13, Escape |-> 27, Delete |-> 46]
      [] b = "macos" ->
            [Shift_L |-> MAC_Shift_L, Control_L |-> MAC_Control_L,
             Caps_Lock |-> 57, Return |-> 36, Escape |-> 53, Delete |-> 51]

\* aliases given the values of the right-hand variants
vk_alias_rightVariant(b) ==
    LET c == vk_canonical(b)
    IN [Shift |-> c.Shift_L + 1, Control |-> c.Control_L + 1,
        Ctrl |-> c.Control_L + 1, Caps |-> c.Caps_Lock,
        Enter |-> c.Return, Esc |-> c.Escape, Del |-> c.Delete]

\* enum class vk: the alias enumerators, each initialised from another
\* enumerator (Shift = Shift_L, Enter = Return, ...)
vk_alias(b) ==
    LET c == vk_canonical(b)
    IN [Shift |-> c.Shift_L, Control |-> c.Control_L, Ctrl |-> c.Control_L,
        Caps |-> c.Caps_Lock,
        Enter |-> c.Return, Esc |-> c.Escape, Del |-> c.Delete]

X11Keys == {X11_A, X11_Super_R}
WinKeys == {WIN_A, WIN_Shift_L}
MacKeys == {MAC_A, MAC_Shift_L, MAC_Shift_R}

Backends == {"x11", "win32", "macos"}

KeysOf(b) ==
    CASE b = "x11" -> X11Keys
      [] b = "win32" -> WinKeys
      [] b = "macos" -> MacKeys

----------------------------------------------------------------------------
(* Sequences and combinations *)

SeqsUpTo(S, n) == UNION {[1..m -> S] : m \in 0..n}

Range(f) == {f[i] : i \in DOMAIN f}

NoDup(f) == \A i, j \in DOMAIN f : i # j => f[i] # f[j]

\* Combinations a caller can build: a vector on X11 / Win32, a set on macOS
Combos(b) ==
    IF b = "macos"
    THEN {c \in SeqsUpTo(MacKeys, MaxLen) : NoDup(c)}
    ELSE SeqsUpTo(KeysOf(b), MaxLen)

Min(S) == CHOOSE x \in S : \A y \in S : x <= y

RECURSIVE SortedSeq(_)
SortedSeq(S) ==
    IF S = {} THEN <<>> ELSE <<Min(S)>> \o SortedSeq(S \ {Min(S)})

Perms(S) == {f \in [1..Cardinality(S) -> S] : NoDup(f)}

----------------------------------------------------------------------------
(* The platform *)

\* Keyboard mappings an X server may serve (keysym -> keycode): the evdev
\* layout, and one whose keyboard has no right Super key.
ServerKeymaps ==
    { (X11_A :> 38) @@ (X11_Super_R :> 134),
      (X11_A :> 38) }

\* Hardware key codes of the X11 keyboard: the A key, space, right Super
X11Codes == {38, 65, 134}

\* Keys the attached HID keyboards may report
AttachedSets == { MacKeys, {MAC_A, MAC_Shift_L}, {} }

CodesOf(b) ==
    CASE b = "x11" -> X11Codes
      [] b = "win32" -> WinKeys
      [] b = "macos" -> MacKeys

Envs(b) ==
    CASE b = "x11" ->
            [xserverUp : BOOLEAN, keymap : ServerKeymaps,
             layoutOk : {TRUE}, hidOpenOk : {TRUE}, attached : {{}}]
      [] b = "win32" ->
            [xserverUp : {TRUE}, keymap : {<<>>},
             layoutOk : {TRUE}, hidOpenOk : {TRUE}, attached : {{}}]
      [] b = "macos" ->
            {e \in [xserverUp : {TRUE}, keymap : {<<>>}, layoutOk : BOOLEAN,
                    hidOpenOk : BOOLEAN, attached : AttachedSets] :
                (~e.layoutOk \/ ~e.hidOpenOk) =>
                    (e.layoutOk # e.hidOpenOk /\ e.attached = MacKeys)}

\* Outcomes of handing a null Display* to Xlib (undefined behaviour): the
\* process is killed, or the call returns and leaves the keymap buffer
\* uninitialised (all bits clear, or the bit of every hardware key set)
UBOutcomes == {"fault", "zero", "ones"}

\* The outcomes that can occur in this process: none without a null display
Outcomes == IF backend = "x11" /\ ~env.xserverUp THEN UBOutcomes ELSE {"none"}

----------------------------------------------------------------------------
(* Program state as a record, so that operations compose *)

St ==
    [display |-> display, hidBuilt |-> hidBuilt, keys |-> keys, down |-> down,
     injected |-> injected, calls |-> calls, raised |-> raised,
     caller |-> caller, xerror |-> xerror]

Call(fn, nulldpy, n) == [fn |-> fn, nulldpy |-> nulldpy, n |-> n]

NativeCall(s, fn) ==
    [s EXCEPT !.calls = Append(@, Call(fn, s.display = "null", 1))]

Event(code, is_down, flags) == [code |-> code, down |-> is_down, flags |-> flags]

\* The input system takes an injected event for a code it knows
Deliver(s, code, is_down, flags, valid) ==
    [s EXCEPT !.injected = Append(@, Event(code, is_down, flags)),
              !.down = IF ~valid THEN @
                       ELSE IF is_down THEN @ \cup {code} ELSE @ \ {code}]

----------------------------------------------------------------------------
(* X11 backend *)

\* a get() whose handler is not static: every call opens the display
display_handler_get_reopen(s) ==
    [s EXCEPT !.display = IF env.xserverUp THEN "open" ELSE "null",
              !.calls = Append(@, Call("XOpenDisplay", FALSE, 1))]

\* display_handler::get(): the static handler is constructed on first use
display_handler_get(s) ==
    IF s.display = "unopened"
    THEN [s EXCEPT !.display = IF env.xserverUp THEN "open" ELSE "null",
                   !.calls = Append(@, Call("XOpenDisplay", FALSE, 1))]
    ELSE s

\* XKeysymToKeycode: 0 when the keysym has no key code
XKeysymToKeycode(k) ==
    IF k \in DOMAIN env.keymap THEN env.keymap[k] ELSE 0

\* XTestFakeKeyEvent on an open display: the request is queued; the server
\* takes it for a key code of its keyboard and answers a key code outside
\* that range (0) with a BadValue error instead of an event
XTestFakeKeyEvent(s, kc, is_press) ==
    IF kc # 0 THEN Deliver(s, kc, is_press, {}, TRUE)
    ELSE [Deliver(s, kc, is_press, {}, FALSE) EXCEPT !.xerror = TRUE]

\* A request that waits for the server's reply reads what the server sent
\* before it: an error goes to Xlib's default handler, which ends the
\* process
RoundTrip(s) ==
    IF s.display = "open" /\ s.xerror THEN [s EXCEPT !.raised = "xerror"]
    ELSE s

RECURSIVE xtest_loop(_, _, _, _)
xtest_loop(s, combo, is_press, ub) ==
    IF combo = <<>> THEN s
    ELSE LET s1 == NativeCall(s, "XKeysymToKeycode") IN
         IF s.display = "null" /\ ub = "fault"
         THEN [s1 EXCEPT !.raised = "fault"]
         ELSE LET kc == IF s.display = "null" THEN 0
                        ELSE XKeysymToKeycode(Head(combo))
                  s2 == NativeCall(s1, "XTestFakeKeyEvent")
                  s3 == IF s.display = "null" THEN s2
                        ELSE XTestFakeKeyEvent(s2, kc, is_press)
              IN xtest_loop(s3, Tail(combo), is_press, ub)

xtest_fake_key_events(s, combo, is_press, ub) ==
    xtest_loop(display_handler_get(s), combo, is_press, ub)

\* a press that walks combo.keys from the back
x11_press_backwards(s, combo, ub) ==
    xtest_fake_key_events(s, [i \in 1..Len(combo) |-> combo[Len(combo) + 1 - i]],
                          TRUE, ub)

x11_press(s, combo, ub) == xtest_fake_key_events(s, combo, TRUE, ub)

x11_release(s, combo, ub) == xtest_fake_key_events(s, combo, FALSE, ub)

\* a keymap buffer filled once, before any key went down
XQueryKeymap_snapshot(s, ub) == {}

\* XQueryKeymap: the bits of keys_return
XQueryKeymap(s, ub) ==
    IF s.display = "null"
    THEN (IF ub = "ones" THEN X11Codes ELSE {})
    ELSE s.down

RECURSIVE x11_is_pressed_loop(_, _, _, _)
x11_is_pressed_loop(s, keys_return, combo, ub) ==
    IF combo = <<>> THEN [st |-> s, ret |-> TRUE]
    ELSE LET s1 == NativeCall(s, "XKeysymToKeycode") IN
         IF s.display = "null" /\ ub = "fault"
         THEN [st |-> [s1 EXCEPT !.raised = "fault"], ret |-> FALSE]
         ELSE LET kc == IF s.display = "null" THEN 0
                        ELSE XKeysymToKeycode(Head(combo))
              IN IF kc \notin keys_return
                 THEN [st |-> s1, ret |-> FALSE]
                 ELSE x11_is_pressed_loop(s1, keys_return, Tail(combo), ub)

\* an is_pressed that wants as many keys down as the combination stores
x11_is_pressed_counting(s, combo, ub) ==
    LET s1 == display_handler_get(s)
        s2 == NativeCall(s1, "XQueryKeymap")
        r == x11_is_pressed_loop(s2, XQueryKeymap(s1, ub), combo, ub)
    IN [r EXCEPT !.ret = @ /\ Cardinality(Range(combo)) = Len(combo)]

x11_is_pressed(s, combo, ub) ==
    LET s1 == display_handler_get(s)
        s2 == RoundTrip(NativeCall(s1, "XQueryKeymap"))
    IN IF s1.display = "null" /\ ub = "fault"
       THEN [st |-> [s2 EXCEPT !.raised = "fault"], ret |-> FALSE]
       ELSE IF s2.raised = "xerror" THEN [st |-> s2, ret |-> FALSE]
       ELSE x11_is_pressed_loop(s2, XQueryKeymap(s1, ub), combo, ub)

x11_pressed_keys(s, ub) ==
    LET s1 == display_handler_get(s)
        s2 == RoundTrip(NativeCall(s1, "XQueryKeymap"))
    IN IF s1.display = "null" /\ ub = "fault"
       THEN [st |-> [s2 EXCEPT !.raised = "fault"], ret |-> <<>>]
       ELSE IF s2.raised = "xerror" THEN [st |-> s2, ret |-> <<>>]
       ELSE [st |-> s2,
             ret |-> SortedSeq(XQueryKeymap(s1, ub) \cap (0..255))]

----------------------------------------------------------------------------
(* X11 backend: mouse buttons *)

\* os::mouse::button values, the same as Xlib's button numbers
BUTTON_left == 1
BUTTON_right == 3

Buttons == {BUTTON_left, BUTTON_right}

\* xtest_fake_button_event: the button event goes to the server's queue;
\* it is no key event and leaves the keymap as it is
xtest_fake_button_event(s, b, is_press, ub) ==
    LET s1 == display_handler_get(s)
        s2 == NativeCall(s1, "XTestFakeButtonEvent")
    IN IF s1.display = "null"
       THEN (IF ub = "fault" THEN [s2 EXCEPT !.raised = "fault"] ELSE s2)
       ELSE Deliver(s2, b, is_press, {"button"}, FALSE)

mouse_press(s, b, ub) == xtest_fake_button_event(s, b, TRUE, ub)

mouse_release(s, b, ub) == xtest_fake_button_event(s, b, FALSE, ub)

\* inline void click(button b) { press(b); release(b); }
mouse_click(s, b, ub) ==
    LET s1 == mouse_press(s, b, ub)
    IN IF s1.raised # "none" THEN s1 ELSE mouse_release(s1, b, ub)

\* a double_click that clicks once
mouse_double_click_once(s, b, ub) == mouse_click(s, b, ub)

\* inline void double_click(button b) { click(b); click(b); }
mouse_double_click(s, b, ub) ==
    LET s1 == mouse_click(s, b, ub)
    IN IF s1.raised # "none" THEN s1 ELSE mouse_click(s1, b, ub)

----------------------------------------------------------------------------
(* Win32 backend *)

\* SendInput: the records are inserted into the input stream in order
RECURSIVE SendInput(_, _)
SendInput(s, inputs) ==
    IF inputs = <<>> THEN s
    ELSE SendInput(Deliver(s, Head(inputs).wVk,
                           "KEYEVENTF_KEYUP" \notin Head(inputs).dwFlags,
                           {}, TRUE),
                   Tail(inputs))

\* send_inputs with the key-up flag set whatever is_down says
send_inputs_alwaysKeyUp(s, combo, is_down) ==
    LET inputs == [i \in 1..Len(combo) |->
                     [type |-> "INPUT_KEYBOARD", wVk |-> combo[i],
                      dwFlags |-> {"KEYEVENTF_KEYUP"}]]
        s1 == [s EXCEPT !.calls = Append(@, Call("SendInput", FALSE, Len(inputs)))]
    IN SendInput(s1, inputs)

send_inputs(s, combo, is_down) ==
    LET inputs == [i \in 1..Len(combo) |->
                     [type |-> "INPUT_KEYBOARD", wVk |-> combo[i],
                      dwFlags |-> IF ~is_down THEN {"KEYEVENTF_KEYUP"} ELSE {}]]
        s1 == [s EXCEPT !.calls = Append(@, Call("SendInput", FALSE, Len(inputs)))]
    IN SendInput(s1, inputs)

win32_press(s, combo) == send_inputs(s, combo, TRUE)

\* a release that sends the records of a press
win32_release_keyDown(s, combo) == send_inputs(s, combo, TRUE)

win32_release(s, combo) == send_inputs(s, combo, FALSE)

\* GetAsyncKeyState(key) & (1 << 15)
GetAsyncKeyState(s, key) == key \in s.down

RECURSIVE win32_is_pressed(_, _)
win32_is_pressed(s, combo) ==
    IF combo = <<>> THEN [st |-> s, ret |-> TRUE]
    ELSE LET s1 == NativeCall(s, "GetAsyncKeyState") IN
         IF ~GetAsyncKeyState(s, Head(combo))
         THEN [st |-> s1, ret |-> FALSE]
         ELSE win32_is_pressed(s1, Tail(combo))

win32_pressed_keys(s) ==
    [st |-> [s EXCEPT !.calls = Append(@, Call("GetAsyncKeyState", FALSE, 256))],
     ret |-> SortedSeq({key \in 0..255 : GetAsyncKeyState(s, key)})]

----------------------------------------------------------------------------
(* Carbon/IOKit backend *)

Remove(seq, k) == SelectSeq(seq, LAMBDA x : x # k)

\* try_extract that sets the flag and leaves the modifier in the combination
try_extract_noErase(r, modifier, mask) ==
    IF modifier \in Range(r.keys)
    THEN [flags |-> r.flags \cup {mask}, keys |-> r.keys]
    ELSE r

\* the try_extract lambda of extract_modifiers; r is [flags, keys]
try_extract(r, modifier, mask) ==
    IF modifier \in Range(r.keys)
    THEN [flags |-> r.flags \cup {mask}, keys |-> Remove(r.keys, modifier)]
    ELSE r

extract_modifiers(combo) ==
    LET r0 == [flags |-> {}, keys |-> combo]
        r1 == try_extract(r0, MAC_Function, "SecondaryFn")
        r2 == try_extract(r1, MAC_Shift_L, "Shift")
        r3 == try_extract(r2, MAC_Shift_R, "Shift")
        r4 == try_extract(r3, MAC_Option_L, "Alternate")
        r5 == try_extract(r4, MAC_Option_R, "Alternate")
        r6 == try_extract(r5, MAC_Command_L, "Command")
        r7 == try_extract(r6, MAC_Command_R, "Command")
        r8 == try_extract(r7, MAC_Control_L, "Control")
        r9 == try_extract(r8, MAC_Control_R, "Control")
    IN r9

\* try_extract of the older revision that erases m1 only
try_extract_older_eraseFirst(r, m1, m2, mask) ==
    IF m1 \in Range(r.keys) \/ m2 \in Range(r.keys)
    THEN [flags |-> r.flags \cup {mask}, keys |-> Remove(r.keys, m1)]
    ELSE r

\* the try_extract lambda of the older revision: both variants at once
try_extract_older(r, m1, m2, mask) ==
    IF m1 \in Range(r.keys) \/ m2 \in Range(r.keys)
    THEN [flags |-> r.flags \cup {mask},
          keys |-> Remove(Remove(r.keys, m1), m2)]
    ELSE r

\* extract_modifiers of the older revision
extract_modifiers_older(combo) ==
    LET r0 == [flags |-> {}, keys |-> combo]
        r1 == try_extract_older(r0, MAC_Shift_L, MAC_Shift_R, "Shift")
        r2 == try_extract_older(r1, MAC_Option_L, MAC_Option_R, "Alternate")
        r3 == try_extract_older(r2, MAC_Command_L, MAC_Command_R, "Command")
        r4 == try_extract_older(r3, MAC_Control_L, MAC_Control_R, "Control")
        r5 == try_extract_older(r4, MAC_Function, MAC_Function, "SecondaryFn")
    IN r5

\* Virtual Keys a combination given to extract_modifiers is built from
ModKeys ==
    {MAC_A, MAC_Function, MAC_Shift_L, MAC_Shift_R, MAC_Option_L, MAC_Option_R,
     MAC_Command_L, MAC_Command_R, MAC_Control_L, MAC_Control_R}

\* extract_modifiers(no_modifiers), current revision
ExtractModifiers ==
    /\ emNew = <<>>
    /\ emNew' = <<extract_modifiers(emCombo)>>
    /\ UNCHANGED <<emCombo, emOld, nonModVars>>

\* extract_modifiers(no_modifiers), older revision
ExtractModifiersOlder ==
    /\ emOld = <<>>
    /\ emOld' = <<extract_modifiers_older(emCombo)>>
    /\ UNCHANGED <<emCombo, emNew, nonModVars>>

\* CGEventCreateKeyboardEvent / CGEventSetFlags / CGEventPost per key; a
\* posted event does not change what the HID elements report
RECURSIVE CGEventPostAll(_, _, _, _)
CGEventPostAll(s, no_modifiers, flags, is_down) ==
    IF no_modifiers = <<>> THEN s
    ELSE CGEventPostAll(
             Deliver(NativeCall(s, "CGEventPost"),
                     Head(no_modifiers), is_down, flags, FALSE),
             Tail(no_modifiers), flags, is_down)

\* send_key_events that posts the caller's combination as it is
send_key_events_noExtract(s, combo, is_down) ==
    CGEventPostAll(s, combo, extract_modifiers(combo).flags, is_down)

\* the modifiers are extracted from no_modifiers, a copy of combo
send_key_events(s, combo, is_down) ==
    LET no_modifiers == combo
        r == extract_modifiers(no_modifiers)
    IN CGEventPostAll(s, r.keys, r.flags, is_down)

\* press that extracts the modifiers from the caller's combination itself
macos_press_inPlace(s, combo) ==
    [send_key_events(s, combo, TRUE)
        EXCEPT !.caller = extract_modifiers(combo).keys]

macos_press(s, combo) == send_key_events(s, combo, TRUE)

macos_release(s, combo) == send_key_events(s, combo, FALSE)

\* HIDInputManager::HIDInputManager(): the cache stays empty when there is
\* no layout data or the HID manager fails to open
HIDInputManager(s) ==
    IF ~env.layoutOk THEN [s EXCEPT !.hidBuilt = TRUE, !.keys = {}]
    ELSE IF ~env.hidOpenOk THEN [s EXCEPT !.hidBuilt = TRUE, !.keys = {}]
    ELSE [s EXCEPT !.hidBuilt = TRUE, !.keys = env.attached]

\* HIDInputManager::get(): static local, constructed on first use
HIDInputManager_get(s) == IF s.hidBuilt THEN s ELSE HIDInputManager(s)

\* std::all_of over combo.keys; keys.at(vk) throws when vk is not cached
RECURSIVE HIDInputManager_is_pressed(_, _)
HIDInputManager_is_pressed(s, combo) ==
    IF combo = <<>> THEN [st |-> s, ret |-> TRUE]
    ELSE IF Head(combo) \notin s.keys
         THEN [st |-> [s EXCEPT !.raised = "out_of_range"], ret |-> FALSE]
         ELSE LET s1 == NativeCall(s, "IOHIDDeviceGetValue") IN
              IF Head(combo) \notin s.down
              THEN [st |-> s1, ret |-> FALSE]
              ELSE HIDInputManager_is_pressed(s1, Tail(combo))

\* iterates the cache in its (unspecified) order
HIDInputManager_pressed_keys(s, order) ==
    [st |-> [s EXCEPT !.calls = Append(@, Call("IOHIDDeviceGetValue", FALSE,
                                                Cardinality(s.keys)))],
     ret |-> order]

PressedOrders(s) == Perms({vk \in s.keys : vk \in s.down})

macos_is_pressed(s, combo) ==
    HIDInputManager_is_pressed(HIDInputManager_get(s), combo)

----------------------------------------------------------------------------
(* HIDInputManager: building the cache, handle by handle *)

MaxKeyboards == 2

\* Virtual Keys an attached keyboard may report
HidKeys == {MAC_A, MAC_Shift_L}

\* Core Foundation / IOKit objects the constructor gets hold of
Handles ==
    {<<"tis", 0, 0>>, <<"layout_data", 0, 0>>, <<"manager", 0, 0>>,
     <<"mask", 0, 0>>, <<"keyboards", 0, 0>>}
        \cup {<<"array", i, 0>> : i \in 1..MaxKeyboards}
        \cup {<<"element", i, k>> : i \in 1..MaxKeyboards, k \in HidKeys}

NoRefs == [x \in Handles |-> 0]

\* A Create / Copy call or CFRetain: one more reference to give back
Own(h, x) == [h EXCEPT !.refs[x] = @ + 1]

CFRelease(h, x) == [h EXCEPT !.refs[x] = @ - 1]

Hid == [cache |-> hkCache, refs |-> hkRefs]

\* load_key that leaves an entry of the cache as it is
load_key_keepFirst(h, i, vk) ==
    IF vk \in DOMAIN h.cache THEN h
    ELSE Own([h EXCEPT !.cache = (vk :> i) @@ @], <<"element", i, vk>>)

\* load_key(key): keys[vk] = key; CFRetain(keys[vk]);
load_key(h, i, vk) ==
    Own([h EXCEPT !.cache = (vk :> i) @@ @], <<"element", i, vk>>)

\* for (CFIndex i = 0; i < keys_count; ++i) { ...; load_key(key); }
RECURSIVE load_keys(_, _, _)
load_keys(h, i, elements) ==
    IF elements = {} THEN h
    ELSE load_keys(load_key(h, i, Min(elements)), i, elements \ {Min(elements)})

\* load_keyboard(keyboard): keyboard i of the enumeration
load_keyboard(h, i) ==
    LET h1 == Own(h, <<"array", i, 0>>)   \* IOHIDDeviceCopyMatchingElements
    IN IF hkBoards[i] = {} THEN h1                 \* keys_count == 0: return
       ELSE CFRelease(load_keys(h1, i, hkBoards[i]), <<"array", i, 0>>)

RECURSIVE load_keyboards(_, _)
load_keyboards(h, i) ==
    IF i > Len(hkBoards) THEN h
    ELSE load_keyboards(load_keyboard(h, i), i + 1)

\* copy_devices(page, usage): the handle table afterwards, and whether a
\* non-empty device set is returned
copy_devices(h) ==
    LET h1 == CFRelease(Own(h, <<"mask", 0, 0>>), <<"mask", 0, 0>>)
        h2 == Own(h1, <<"keyboards", 0, 0>>)       \* IOHIDManagerCopyDevices
    IN IF Len(hkBoards) = 0
       THEN [st |-> CFRelease(h2, <<"keyboards", 0, 0>>), devices |-> FALSE]
       ELSE [st |-> h2, devices |-> TRUE]

init_keyboard(h) ==
    LET r == copy_devices(h)
    IN IF ~r.devices THEN r.st
       ELSE CFRelease(load_keyboards(r.st, 1), <<"keyboards", 0, 0>>)

\* HIDInputManager::HIDInputManager()
HIDInputManager_ctor(h) ==
    LET h1 == Own(h, <<"tis", 0, 0>>)
    IN IF ~env.layoutOk THEN h1                    \* if (!layout_data) return
       ELSE LET h2 == Own(h1, <<"layout_data", 0, 0>>)            \* CFRetain
                h3 == CFRelease(h2, <<"tis", 0, 0>>)
                h4 == Own(h3, <<"manager", 0, 0>>)      \* IOHIDManagerCreate
            IN IF ~env.hidOpenOk THEN h4
               ELSE init_keyboard(h4)

\* HIDInputManager::~HIDInputManager(); the members of the static object
\* are null where the constructor did not set them
RECURSIVE release_cached(_, _)
release_cached(h, vks) ==
    IF vks = {} THEN h
    ELSE release_cached(CFRelease(h, <<"element", h.cache[Min(vks)], Min(vks)>>),
                        vks \ {Min(vks)})

HIDInputManager_dtor(h) ==
    LET h1 == IF env.layoutOk THEN CFRelease(h, <<"layout_data", 0, 0>>) ELSE h
        h2 == IF env.layoutOk THEN CFRelease(h1, <<"manager", 0, 0>>) ELSE h1
    IN release_cached(h2, DOMAIN h2.cache)

\* is_pressed(vk) through HIDInputManager::get(): the singleton is built on
\* first use; keys.at(vk) throws for a key that is not cached
IsPressedKey ==
    /\ hkPc # "destroyed"
    /\ \E vk \in HidKeys :
         LET h == IF hkPc = "unbuilt" THEN HIDInputManager_ctor(Hid) ELSE Hid IN
         /\ hkCache' = h.cache
         /\ hkRefs' = h.refs
         /\ hkArg' = vk
         /\ hkRet' = IF vk \notin DOMAIN h.cache THEN "out_of_range"
                      ELSE IF vk \in hkDown[h.cache[vk]] THEN "true"
                      ELSE "false"
    /\ hkPc' = "built"
    /\ UNCHANGED <<hkBoards, hkDown, nonHidVars>>

\* The user presses or lets go a key of one attached keyboard
PhysicalKey ==
    /\ hkPc # "destroyed"
    /\ \E i \in DOMAIN hkBoards, vk \in HidKeys :
         /\ vk \in hkBoards[i]
         /\ hkDown' = [hkDown EXCEPT ![i] =
                          IF vk \in @ THEN @ \ {vk} ELSE @ \cup {vk}]
    /\ hkRet' = "none"
    /\ UNCHANGED <<hkBoards, hkPc, hkCache, hkRefs, hkArg, nonHidVars>>

\* Process exit: the static singleton is destroyed
Destroy ==
    /\ hkPc = "built"
    /\ LET h == HIDInputManager_dtor(Hid) IN
         /\ hkCache' = h.cache
         /\ hkRefs' = h.refs
    /\ hkPc' = "destroyed"
    /\ UNCHANGED <<hkBoards, hkDown, hkArg, hkRet, nonHidVars>>

----------------------------------------------------------------------------
(* The provider interface of os/keyboard.hpp *)

press(s, combo, ub) ==
    CASE backend = "x11" -> x11_press(s, combo, ub)
      [] backend = "win32" -> win32_press(s, combo)
      [] backend = "macos" -> macos_press(s, combo)

release(s, combo, ub) ==
    CASE backend = "x11" -> x11_release(s, combo, ub)
      [] backend = "win32" -> win32_release(s, combo)
      [] backend = "macos" -> macos_release(s, combo)

is_pressed(s, combo, ub) ==
    CASE backend = "x11" -> x11_is_pressed(s, combo, ub)
      [] backend = "win32" -> win32_is_pressed(s, combo)
      [] backend = "macos" -> macos_is_pressed(s, combo)

\* click with the two calls swapped
click_releaseFirst(s, combo, ub) ==
    LET s1 == release(s, combo, ub)
    IN IF s1.raised # "none" THEN s1 ELSE press(s1, combo, ub)

\* inline void click(combo) { press(combo); release(combo); }
click(s, combo, ub) ==
    LET s1 == press(s, combo, ub)
    IN IF s1.raised # "none" THEN s1 ELSE release(s1, combo, ub)

----------------------------------------------------------------------------
(* Actions *)

Fresh(s) ==
    [s EXCEPT !.injected = <<>>, !.calls = <<>>, !.raised = "none",
              !.caller = <<>>]

\* Entry of an operation that is handed the caller's combination
Enter(combo) == [Fresh(St) EXCEPT !.caller = combo]

Commit(s) ==
    /\ display' = s.display
    /\ hidBuilt' = s.hidBuilt
    /\ keys' = s.keys
    /\ down' = s.down
    /\ injected' = s.injected
    /\ calls' = s.calls
    /\ raised' = s.raised
    /\ caller' = s.caller
    /\ xerror' = s.xerror

\* the process is running: not killed, static objects not yet destroyed
Alive == raised \notin {"fault", "xerror"} /\ op # "teardown"

Press ==
    /\ Alive
    /\ \E combo \in Combos(backend), ub \in Outcomes :
         /\ Commit(press(Enter(combo), combo, ub))
         /\ op' = "press"
         /\ arg' = combo
    /\ retBool' = FALSE
    /\ retCombo' = <<>>
    /\ UNCHANGED <<backend, env, nonKbVars>>

Release ==
    /\ Alive
    /\ \E combo \in Combos(backend), ub \in Outcomes :
         /\ Commit(release(Enter(combo), combo, ub))
         /\ op' = "release"
         /\ arg' = combo
    /\ retBool' = FALSE
    /\ retCombo' = <<>>
    /\ UNCHANGED <<backend, env, nonKbVars>>

Click ==
    /\ Alive
    /\ \E combo \in Combos(backend), ub \in Outcomes :
         /\ Commit(click(Enter(combo), combo, ub))
         /\ op' = "click"
         /\ arg' = combo
    /\ retBool' = FALSE
    /\ retCombo' = <<>>
    /\ UNCHANGED <<backend, env, nonKbVars>>

IsPressed ==
    /\ Alive
    /\ \E combo \in Combos(backend), ub \in Outcomes :
         LET r == is_pressed(Enter(combo), combo, ub) IN
         /\ Commit(r.st)
         /\ retBool' = r.ret
         /\ op' = "is_pressed"
         /\ arg' = combo
    /\ retCombo' = <<>>
    /\ UNCHANGED <<backend, env, nonKbVars>>

PressedKeys ==
    /\ Alive
    /\ \/ /\ backend = "x11"
          /\ \E ub \in Outcomes :
               LET r == x11_pressed_keys(Fresh(St), ub) IN
               Commit(r.st) /\ retCombo' = r.ret
       \/ /\ backend = "win32"
          /\ LET r == win32_pressed_keys(Fresh(St)) IN
             Commit(r.st) /\ retCombo' = r.ret
       \/ /\ backend = "macos"
          /\ LET s1 == HIDInputManager_get(Fresh(St)) IN
             \E order \in PressedOrders(s1) :
               LET r == HIDInputManager_pressed_keys(s1, order) IN
               Commit(r.st) /\ retCombo' = r.ret
    /\ op' = "pressed_keys"
    /\ arg' = <<>>
    /\ retBool' = FALSE
    /\ UNCHANGED <<backend, env, nonKbVars>>

\* The user presses or lets go of a hardware key
Physical ==
    /\ Alive
    /\ backend = "x11" => env.xserverUp
    /\ \E code \in CodesOf(backend) :
         down' = IF code \in down THEN down \ {code} ELSE down \cup {code}
    /\ injected' = <<>>
    /\ calls' = <<>>
    /\ raised' = "none"
    /\ caller' = <<>>
    /\ op' = "physical"
    /\ arg' = <<>>
    /\ retBool' = FALSE
    /\ retCombo' = <<>>
    /\ UNCHANGED <<backend, env, display, hidBuilt, keys, xerror, nonKbVars>>

\* An operation of os::mouse, implemented for X11
MouseOp(name, s) ==
    /\ Commit(s)
    /\ op' = name
    /\ retBool' = FALSE
    /\ retCombo' = <<>>
    /\ UNCHANGED <<backend, env, nonKbVars>>

MousePress ==
    /\ Alive /\ backend = "x11"
    /\ \E b \in Buttons, ub \in Outcomes :
         MouseOp("mouse_press", mouse_press(Fresh(St), b, ub)) /\ arg' = <<b>>

MouseRelease ==
    /\ Alive /\ backend = "x11"
    /\ \E b \in Buttons, ub \in Outcomes :
         MouseOp("mouse_release", mouse_release(Fresh(St), b, ub))
             /\ arg' = <<b>>

MouseClick ==
    /\ Alive /\ backend = "x11"
    /\ \E b \in Buttons, ub \in Outcomes :
         MouseOp("mouse_click", mouse_click(Fresh(St), b, ub)) /\ arg' = <<b>>

MouseDoubleClick ==
    /\ Alive /\ backend = "x11"
    /\ \E b \in Buttons, ub \in Outcomes :
         MouseOp("mouse_double_click", mouse_double_click(Fresh(St), b, ub))
             /\ arg' = <<b>>

\* ~display_handler() { XCloseDisplay(display); }
display_handler_dtor(s, ub) ==
    IF s.display = "unopened" THEN s
    ELSE LET s1 == NativeCall(s, "XCloseDisplay") IN
         IF s.display = "null"
         THEN (IF ub = "fault" THEN [s1 EXCEPT !.raised = "fault"] ELSE s1)
         ELSE IF s1.xerror THEN RoundTrip(s1)
         ELSE [s1 EXCEPT !.display = "closed"]

\* Process exit: the static objects are destroyed
Teardown ==
    /\ Alive
    /\ \E ub \in Outcomes :
         Commit(IF backend = "x11" THEN display_handler_dtor(Fresh(St), ub)
                ELSE Fresh(St))
    /\ op' = "teardown"
    /\ arg' = <<>>
    /\ retBool' = FALSE
    /\ retCombo' = <<>>
    /\ UNCHANGED <<backend, env, nonKbVars>>

----------------------------------------------------------------------------
(* Semantic version *)

Versions == [major : 0..MaxField, minor : 0..MaxField, patch : 0..MaxField]

version_eq(a, b) ==
    (a.major = b.major) /\ (a.minor = b.minor) /\ (a.patch = b.patch)

version_lt(a, b) ==
    IF a.major < b.major THEN TRUE
    ELSE IF a.minor < b.minor THEN TRUE
    ELSE IF a.patch < b.patch THEN TRUE
    ELSE FALSE

version_le(a, b) == version_lt(a, b) \/ version_eq(a, b)

version_gt(a, b) == ~version_le(a, b)

version_ge(a, b) == ~version_lt(a, b)

NoRes == [done |-> FALSE, lt |-> FALSE, le |-> FALSE, gt |-> FALSE, ge |-> FALSE]

Compare ==
    /\ ~verRes.done
    /\ verRes' = [done |-> TRUE,
                  lt |-> version_lt(verA, verB), le |-> version_le(verA, verB),
                  gt |-> version_gt(verA, verB), ge |-> version_ge(verA, verB)]
    /\ UNCHANGED <<verA, verB, nonVerVars>>

----------------------------------------------------------------------------
(* Semantic version: construction from a string and str() *)

\* A string is the sequence of its characters
Digits == <<"0", "1", "2", "3", "4", "5", "6", "7", "8", "9">>

IsDigit(c) == \E i \in 1..10 : Digits[i] = c

\* *it - '0'
DigitVal(c) == (CHOOSE i \in 1..10 : Digits[i] = c) - 1

\* An unsigned (32 bits) is kept as its two 16-bit halves
Half == 2^16

U32(hi, lo) == [hi |-> hi, lo |-> lo]

Zero32 == U32(0, 0)

UINT_MAX == U32(Half - 1, Half - 1)

\* *field *= 10; *field += *it - '0';   (unsigned: modulo 2^32)
MulAdd10(field, d) ==
    LET lo == field.lo * 10 + d
    IN U32((field.hi * 10 + lo \div Half) % Half, lo % Half)

\* while (it != str.end() && '0' <= *it && *it <= '9') { ... it++; }
RECURSIVE read_digits(_, _, _)
read_digits(str, it, field) ==
    IF it <= Len(str) /\ IsDigit(str[it])
    THEN read_digits(str, it + 1, MulAdd10(field, DigitVal(str[it])))
    ELSE [it |-> it, field |-> field]

\* for (auto field : fields): n is the index of the field in fields[3]
RECURSIVE parse_fields(_, _, _, _)
parse_fields(str, it, fields, n) ==
    IF n > 3 THEN fields
    ELSE LET r == read_digits(str, it, fields[n])
             f1 == [fields EXCEPT ![n] = r.field]
         IN IF r.it > Len(str) \/ str[r.it] # "."
            THEN f1
            ELSE parse_fields(str, r.it + 1, f1, n + 1)

Version32(major, minor, patch) ==
    [major |-> major, minor |-> minor, patch |-> patch]

\* a constructor that reads the major field only
version_from_string_majorOnly(str) ==
    Version32(read_digits(str, 1, Zero32).field, Zero32, Zero32)

\* explicit constexpr version(std::string_view str) noexcept
version_from_string(str) ==
    LET f == parse_fields(str, 1, <<Zero32, Zero32, Zero32>>, 1)
    IN Version32(f[1], f[2], f[3])

\* quotient and remainder of an unsigned by 10
DivMod10(u) ==
    LET t == (u.hi % 10) * Half + u.lo
    IN [q |-> U32(u.hi \div 10, t \div 10), r |-> t % 10]

\* std::to_string(unsigned): the decimal digits, most significant first
RECURSIVE to_string(_)
to_string(u) ==
    LET dm == DivMod10(u)
    IN IF dm.q = Zero32 THEN <<Digits[dm.r + 1]>>
       ELSE Append(to_string(dm.q), Digits[dm.r + 1])

\* std::string str() const
version_str(v) ==
    to_string(v.major) \o <<".">> \o to_string(v.minor) \o <<".">>
        \o to_string(v.patch)

\* Characters the given strings are made of
InputChars == {"0", "1", "2", ".", "x"}

\* Field values of the given versions: 0, 7, 10, 65536, UINT_MAX
FieldValues == {Zero32, U32(0, 7), U32(0, 10), U32(1, 0), UINT_MAX}

Versions32 == [major : FieldValues, minor : FieldValues, patch : FieldValues]

\* "4294967296": the decimal digits of UINT_MAX + 1
DigitsOfTwoTo32 == <<"4", "2", "9", "4", "9", "6", "7", "2", "9", "6">>

\* Longer strings: rendered versions with many digits, and fields that
\* do not fit an unsigned
LongStrings ==
    { version_str(Version32(UINT_MAX, U32(0, 10), U32(1, 0))),
      version_str(Version32(U32(0, 10), U32(0, 7), Zero32)) \o <<".", "7">>,
      DigitsOfTwoTo32 \o <<".", "0", ".", "0">>,
      <<"1", ".">> \o DigitsOfTwoTo32 \o <<"2", ".", "1">> }

Strings == SeqsUpTo(InputChars, MaxStr) \cup LongStrings

NoVersion == Version32(Zero32, Zero32, Zero32)

\* version(std::string_view): from the given string, or from the string
\* that str() rendered
Construct ==
    /\ \/ /\ vsFrom = "string" /\ vsPc = 0
          /\ vsVer' = version_from_string(vsStr)
          /\ UNCHANGED vsVer2
       \/ /\ vsFrom = "version" /\ vsPc = 1
          /\ vsVer2' = version_from_string(vsStr)
          /\ UNCHANGED vsVer
    /\ vsPc' = vsPc + 1
    /\ UNCHANGED <<vsFrom, vsStr, vsStr2, nonStrVars>>

\* str(): of the given version, or of the version constructed
Str ==
    /\ \/ /\ vsFrom = "version" /\ vsPc = 0
          /\ vsStr' = version_str(vsVer)
          /\ UNCHANGED vsStr2
       \/ /\ vsFrom = "string" /\ vsPc = 1
          /\ vsStr2' = version_str(vsVer)
          /\ UNCHANGED vsStr
    /\ vsPc' = vsPc + 1
    /\ UNCHANGED <<vsFrom, vsVer, vsVer2, nonStrVars>>

----------------------------------------------------------------------------
(* os::info(): the cached OS information record *)

\* The source is /etc/os-release (Linux, the X11 build), the WMI query
\* (Windows) or SystemVersion.plist (macOS).  What a read can meet: it goes
\* through, or the step named fails.
ReadOutcomes(b) ==
    CASE b = "x11" -> {"ok", "no_file", "empty_value"}
      [] b = "win32" ->
            {"ok", "CoInitializeEx", "CoInitializeSecurity",
             "CoCreateInstance", "ConnectServer", "CoSetProxyBlanket",
             "ExecQuery"}
      [] b = "macos" -> {"ok", "no_stream"}

\* The version text the source holds at the time of a read
SourceVersions == {"12.0", "11.0"}

\* info() and the accessors implemented as info().field
InfoCallers(b) ==
    CASE b = "x11" ->
            {"info", "name", "pretty_name", "codename", "version",
             "version_string"}
      [] b = "win32" -> {"info", "pretty_name", "version", "version_string"}
      [] b = "macos" ->
            {"info", "pretty_name", "codename", "version", "version_string"}

\* info_t, default-constructed
EmptyInfo ==
    [type |-> "undefined", name |-> "", pretty_name |-> <<>>,
     version_string |-> ""]

InfoSt == [init |-> infoInit, i |-> infoRec, reads |-> infoReads,
           raised |-> FALSE]

\* Linux: const info_t & info()
linux_info(s, outcome, content) ==
    IF ~s.init THEN s
    ELSE LET i1 == [s.i EXCEPT !.type = "linux"]
             s1 == [s EXCEPT !.i = i1, !.reads = @ + 1]
         IN CASE outcome = "ok" ->
                    [s1 EXCEPT !.i = [i1 EXCEPT !.name = "NAME",
                                         !.version_string = content,
                                         !.pretty_name = <<"PRETTY_NAME">>],
                               !.init = FALSE]
              [] outcome = "empty_value" ->
                    \* value.substr(1, ...) of an empty value throws
                    [s1 EXCEPT !.raised = TRUE]
              [] outcome = "no_file" ->
                    [s1 EXCEPT !.i = [i1 EXCEPT !.name = "Linux",
                                         !.version_string = "kernel",
                                         !.pretty_name = <<"Linux", "kernel">>],
                               !.init = FALSE]

\* Windows: const info_t& info()
windows_info(s, outcome, content) ==
    IF ~s.init THEN s
    ELSE LET i1 == [s.i EXCEPT !.type = "windows", !.name = "Windows",
                               !.pretty_name = <<"Windows">>]
             s1 == [s EXCEPT !.i = i1, !.reads = @ + 1]
         IN IF outcome # "ok"
            THEN s1     \* if (FAILED(hres)) { ...; return i; }
            ELSE [s1 EXCEPT !.i = [i1 EXCEPT !.version_string = content,
                                       !.pretty_name = <<"Windows", content>>],
                            !.init = FALSE]

\* the codename ladder on the major version read
macos_codename(version_string) ==
    CASE version_string = "12.0" -> "Monterey"
      [] version_string = "11.0" -> "Big Sur"
      [] OTHER -> ""

\* macOS: const info_t & info()
macos_info(s, outcome, content) ==
    IF ~s.init THEN s
    ELSE LET i1 == [s.i EXCEPT !.type = "macos", !.name = "macOS"]
             i2 == IF outcome = "ok"
                   THEN [i1 EXCEPT !.version_string = content]
                   ELSE i1
         IN [s EXCEPT !.i = [i2 EXCEPT !.pretty_name =
                                <<"macOS", macos_codename(i2.version_string)>>],
                      !.reads = @ + 1,
                      !.init = FALSE]

info(s, outcome, content) ==
    CASE backend = "x11" -> linux_info(s, outcome, content)
      [] backend = "win32" -> windows_info(s, outcome, content)
      [] backend = "macos" -> macos_info(s, outcome, content)

\* A call of info(), directly or through an accessor
Info ==
    /\ infoCalls < MaxCalls
    /\ \E who \in InfoCallers(backend), outcome \in ReadOutcomes(backend),
          content \in SourceVersions :
         LET r == info(InfoSt, outcome, content) IN
         /\ infoInit' = r.init
         /\ infoRec' = r.i
         /\ infoReads' = r.reads
         /\ infoRet' = [raised |-> r.raised,
                        rec |-> IF r.raised THEN EmptyInfo ELSE r.i]
         /\ infoOp' = who
    /\ infoCalls' = infoCalls + 1
    /\ UNCHANGED nonInfoVars

----------------------------------------------------------------------------
(* Windows: the pretty name chosen from the version *)

MaxWinMajor == 11
MaxWinMinor == 4

\* Versions the pretty-name ladder is given
WinVersions ==
    [major : 0..MaxWinMajor, minor : 0..MaxWinMinor, patch : 0..1]

\* ::version{ major, minor }
Version2(major, minor) == [major |-> major, minor |-> minor, patch |-> 0]

\* i.pretty_name += " "; if (i.version >= ::version{ 10, 0 }) ... else
\* pop_back: the pieces of i.pretty_name
windows_pretty_name(v) ==
    LET name == <<"Windows", " ">> IN
    IF version_ge(v, Version2(10, 0)) THEN name \o to_string(U32(0, v.major))
    ELSE IF version_ge(v, Version2(6, 3)) THEN name \o <<"8.1">>
    ELSE IF version_ge(v, Version2(6, 2)) THEN name \o <<"8">>
    ELSE IF version_ge(v, Version2(6, 1)) THEN name \o <<"7">>
    ELSE IF version_ge(v, Version2(6, 0)) THEN name \o <<"Vista">>
    ELSE IF version_ge(v, Version2(5, 2)) THEN name \o <<"XP 64-Bit Edition">>
    ELSE IF version_ge(v, Version2(5, 1)) THEN name \o <<"XP">>
    ELSE IF version_ge(v, Version2(5, 0)) THEN name \o <<"2000">>
    ELSE <<"Windows">>

\* info() reaches the ladder with i.version set
PrettyName ==
    /\ wnName = <<>>
    /\ wnName' = windows_pretty_name(wnVer)
    /\ UNCHANGED <<wnVer, nonWinVars>>

----------------------------------------------------------------------------
(* combination: construction, operator+= and operator+ *)

\* Orders in which a std::unordered_set may iterate the Virtual Keys
HashOrders == IF backend = "macos" THEN Perms(MacKeys) ELSE {<<>>}

\* The members S of an unordered_set, as it iterates them
Arrange(S, order) == SelectSeq(order, LAMBDA k : k \in S)

\* combination(vk key) : keys({key})
combination_vk(key) == <<key>>

\* combination(std::initializer_list<vk> keys) : keys(keys)
combination_list(list, order) ==
    IF backend = "macos" THEN Arrange(Range(list), order) ELSE list

\* combination & operator+=(const combination &combo): *this afterwards
operator_plus_assign(self, combo, order) ==
    IF backend = "macos"
    THEN Arrange(Range(self) \cup Range(combo), order)  \* keys.insert(b, e)
    ELSE self \o combo                           \* keys.insert(end, b, e)

\* operator+ that appends to *this and returns it
operator_plus_inPlace(self, combo, order) ==
    [this |-> operator_plus_assign(self, combo, order), combo |-> combo,
     ret |-> operator_plus_assign(self, combo, order)]

\* combination operator+(const combination &combo) const: the append is
\* made to a copy of *this
operator_plus(self, combo, order) ==
    [this |-> self, combo |-> combo,
     ret |-> operator_plus_assign(self, combo, order)]

\* operator+(vk, vk) that keeps the left key only
vk_plus_lhsOnly(lhs, rhs, order) == combination_list(<<lhs>>, order)

\* inline combination operator+(vk lhs, vk rhs)
vk_plus(lhs, rhs, order) == combination_list(<<lhs, rhs>>, order)

NoSums == [done |-> {}, plus |-> <<>>, left |-> <<>>, right |-> <<>>]

\* a + b for two combinations
Plus ==
    /\ "plus" \notin cmbRes.done
    /\ \E order \in HashOrders :
         LET r == operator_plus(cmbA, cmbB, order) IN
         /\ cmbA' = r.this
         /\ cmbB' = r.combo
         /\ cmbRes' = [cmbRes EXCEPT !.done = @ \cup {"plus"}, !.plus = r.ret]
    /\ UNCHANGED <<cmbC, nonCmbVars>>

\* (a + b) + c for three Virtual Keys: operator+(vk, vk), then the member
\* operator+ with c converted by combination(vk)
PlusLeft ==
    /\ "left" \notin cmbRes.done
    /\ Len(cmbA) = 1 /\ Len(cmbB) = 1 /\ Len(cmbC) = 1
    /\ \E order \in HashOrders :
         LET ab == vk_plus(cmbA[1], cmbB[1], order)
             r == operator_plus(ab, combination_vk(cmbC[1]), order)
         IN cmbRes' = [cmbRes EXCEPT !.done = @ \cup {"left"}, !.left = r.ret]
    /\ UNCHANGED <<cmbA, cmbB, cmbC, nonCmbVars>>

\* a + (b + c) for three Virtual Keys: operator+(vk, vk), then the member
\* operator+ of combination(a)
PlusRight ==
    /\ "right" \notin cmbRes.done
    /\ Len(cmbA) = 1 /\ Len(cmbB) = 1 /\ Len(cmbC) = 1
    /\ \E order \in HashOrders :
         LET bc == vk_plus(cmbB[1], cmbC[1], order)
             r == operator_plus(combination_vk(cmbA[1]), bc, order)
         IN cmbRes' = [cmbRes EXCEPT !.done = @ \cup {"right"},
                                     !.right = r.ret]
    /\ UNCHANGED <<cmbA, cmbB, cmbC, nonCmbVars>>

----------------------------------------------------------------------------
(* os::kernel::info() called from several threads *)

Threads == 1..NumThreads

\* The fields of kernel::info_t in the order the body assigns them
InfoFields == <<"name", "version", "version_string">>

\* info_t, default-constructed: no field assigned yet
UnsetInfo == [f \in Range(InfoFields) |-> "unset"]

\* A thread at "write" or "finish" is inside the assignment of field n
AtField(stage, n) == [stage |-> stage, n |-> n]

\* if (static bool init = true; init): the flag is read without a lock
CallInfo(t) ==
    /\ cPc[t] = AtField("idle", 0)
    /\ IF cInit
       THEN /\ cPc' = [cPc EXCEPT ![t] = AtField("write", 1)]
            /\ cRuns' = cRuns + 1
       ELSE /\ cPc' = [cPc EXCEPT ![t] = AtField("return", 0)]
            /\ UNCHANGED cRuns
    /\ UNCHANGED <<cInit, cRec, nonConcVars>>

\* i.name = ...; i.version = ...; i.version_string = ...: the assignment
\* of a field starts, the field holds neither the old nor the new value
WriteField(t) ==
    /\ cPc[t].stage = "write"
    /\ cRec' = [cRec EXCEPT ![InfoFields[cPc[t].n]] = "writing"]
    /\ cPc' = [cPc EXCEPT ![t] = AtField("finish", cPc[t].n)]
    /\ UNCHANGED <<cInit, cRuns, nonConcVars>>

\* the assignment of the field is complete
FinishField(t) ==
    /\ cPc[t].stage = "finish"
    /\ cRec' = [cRec EXCEPT ![InfoFields[cPc[t].n]] = "set"]
    /\ cPc' = [cPc EXCEPT ![t] =
                  IF cPc[t].n < Len(InfoFields)
                  THEN AtField("write", cPc[t].n + 1)
                  ELSE AtField("clear", 0)]
    /\ UNCHANGED <<cInit, cRuns, nonConcVars>>

\* init = false;
ClearInit(t) ==
    /\ cPc[t].stage = "clear"
    /\ cInit' = FALSE
    /\ cPc' = [cPc EXCEPT ![t] = AtField("return", 0)]
    /\ UNCHANGED <<cRec, cRuns, nonConcVars>>

\* return i; the caller now reads the record through the reference
ReturnInfo(t) ==
    /\ cPc[t].stage = "return"
    /\ cPc' = [cPc EXCEPT ![t] = AtField("returned", 0)]
    /\ UNCHANGED <<cInit, cRec, cRuns, nonConcVars>>

----------------------------------------------------------------------------
(* Specifications *)

KbIdle ==
    /\ display = "unopened"
    /\ hidBuilt = FALSE
    /\ keys = {}
    /\ down = {}
    /\ injected = <<>>
    /\ calls = <<>>
    /\ raised = "none"
    /\ op = "init"
    /\ arg = <<>>
    /\ retBool = FALSE
    /\ retCombo = <<>>
    /\ caller = <<>>
    /\ xerror = FALSE

VerIdle ==
    /\ verA = [major |-> 0, minor |-> 0, patch |-> 0]
    /\ verB = [major |-> 0, minor |-> 0, patch |-> 0]
    /\ verRes = NoRes

StrIdle ==
    /\ vsFrom = "string"
    /\ vsPc = 0
    /\ vsStr = <<>>
    /\ vsVer = NoVersion
    /\ vsStr2 = <<>>
    /\ vsVer2 = NoVersion

ModIdle ==
    /\ emCombo = <<>>
    /\ emNew = <<>>
    /\ emOld = <<>>

WinIdle ==
    /\ wnVer = [major |-> 0, minor |-> 0, patch |-> 0]
    /\ wnName = <<>>

HidIdle ==
    /\ hkBoards = <<>>
    /\ hkDown = <<>>
    /\ hkPc = "unbuilt"
    /\ hkCache = <<>>
    /\ hkRefs = <<>>
    /\ hkArg = 0
    /\ hkRet = "none"

ConcIdle ==
    /\ cPc = [t \in Threads |-> AtField("idle", 0)]
    /\ cInit = TRUE
    /\ cRec = UnsetInfo
    /\ cRuns = 0

CmbIdle ==
    /\ cmbA = <<>>
    /\ cmbB = <<>>
    /\ cmbC = <<>>
    /\ cmbRes = NoSums

InfoIdle ==
    /\ infoInit = TRUE
    /\ infoRec = EmptyInfo
    /\ infoReads = 0
    /\ infoCalls = 0
    /\ infoRet = [raised |-> FALSE, rec |-> EmptyInfo]
    /\ infoOp = "none"

Init ==
    /\ backend \in Backends
    /\ env \in Envs(backend)
    /\ KbIdle
    /\ VerIdle
    /\ StrIdle
    /\ InfoIdle
    /\ CmbIdle
    /\ ConcIdle
    /\ ModIdle
    /\ WinIdle
    /\ HidIdle

Next ==
    \/ Press
    \/ Release
    \/ Click
    \/ IsPressed
    \/ PressedKeys
    \/ Physical
    \/ MousePress
    \/ MouseRelease
    \/ MouseClick
    \/ MouseDoubleClick
    \/ Teardown

Spec == Init /\ [][Next]_vars

InitVersion ==
    /\ backend = "x11"
    /\ env \in {e \in Envs("x11") : e.xserverUp /\ DOMAIN e.keymap = X11Keys}
    /\ KbIdle
    /\ verA \in Versions
    /\ verB \in Versions
    /\ verRes = NoRes
    /\ StrIdle
    /\ InfoIdle
    /\ CmbIdle
    /\ ConcIdle
    /\ ModIdle
    /\ WinIdle
    /\ HidIdle

NextVersion == Compare

SpecVersion == InitVersion /\ [][NextVersion]_vars

\* The platform the idle keyboard is held on
KbHeld ==
    /\ backend = "x11"
    /\ env \in {e \in Envs("x11") : e.xserverUp /\ DOMAIN e.keymap = X11Keys}
    /\ KbIdle

InitString ==
    /\ KbHeld
    /\ VerIdle
    /\ InfoIdle
    /\ CmbIdle
    /\ ConcIdle
    /\ vsPc = 0
    /\ vsStr2 = <<>>
    /\ vsVer2 = NoVersion
    /\ \/ vsFrom = "string" /\ vsStr \in Strings /\ vsVer = NoVersion
       \/ vsFrom = "version" /\ vsVer \in Versions32 /\ vsStr = <<>>
    /\ ModIdle
    /\ WinIdle
    /\ HidIdle

InitModifiers ==
    /\ backend = "macos"
    /\ env \in {e \in Envs(backend) :
                 e.layoutOk /\ e.hidOpenOk /\ e.attached = MacKeys}
    /\ KbIdle
    /\ VerIdle
    /\ StrIdle
    /\ InfoIdle
    /\ CmbIdle
    /\ ConcIdle
    /\ emCombo \in {c \in SeqsUpTo(ModKeys, MaxLen) : NoDup(c)}
    /\ emNew = <<>>
    /\ emOld = <<>>
    /\ WinIdle
    /\ HidIdle

NextModifiers == ExtractModifiers \/ ExtractModifiersOlder

SpecModifiers == InitModifiers /\ [][NextModifiers]_vars

InitWindowsName ==
    /\ backend = "win32"
    /\ env \in Envs(backend)
    /\ KbIdle
    /\ VerIdle
    /\ StrIdle
    /\ InfoIdle
    /\ CmbIdle
    /\ ConcIdle
    /\ ModIdle
    /\ wnVer \in WinVersions
    /\ wnName = <<>>
    /\ HidIdle

NextWindowsName == PrettyName

SpecWindowsName == InitWindowsName /\ [][NextWindowsName]_vars

InitHID ==
    /\ backend = "macos"
    /\ env \in {e \in Envs(backend) : e.attached = MacKeys}
    /\ KbIdle
    /\ VerIdle
    /\ StrIdle
    /\ InfoIdle
    /\ CmbIdle
    /\ ConcIdle
    /\ ModIdle
    /\ WinIdle
    /\ hkBoards \in SeqsUpTo(SUBSET HidKeys, MaxKeyboards)
    /\ hkDown = [i \in DOMAIN hkBoards |-> {}]
    /\ hkPc = "unbuilt"
    /\ hkCache = <<>>
    /\ hkRefs = NoRefs
    /\ hkArg = 0
    /\ hkRet = "none"

NextHID == IsPressedKey \/ PhysicalKey \/ Destroy

SpecHID == InitHID /\ [][NextHID]_vars

InitInfo ==
    /\ backend \in Backends
    /\ env \in {e \in Envs(backend) :
                 /\ e.xserverUp /\ e.layoutOk /\ e.hidOpenOk
                 /\ e.attached = (IF backend = "macos" THEN MacKeys ELSE {})
                 /\ backend = "x11" => DOMAIN e.keymap = X11Keys}
    /\ KbIdle
    /\ VerIdle
    /\ StrIdle
    /\ InfoIdle
    /\ CmbIdle
    /\ ConcIdle
    /\ ModIdle
    /\ WinIdle
    /\ HidIdle

NextInfo == Info

SpecInfo == InitInfo /\ [][NextInfo]_vars

InitCombination ==
    /\ backend \in Backends
    /\ env \in {e \in Envs(backend) :
                 /\ e.xserverUp /\ e.layoutOk /\ e.hidOpenOk
                 /\ e.attached = (IF backend = "macos" THEN MacKeys ELSE {})
                 /\ backend = "x11" => DOMAIN e.keymap = X11Keys}
    /\ KbIdle
    /\ VerIdle
    /\ StrIdle
    /\ InfoIdle
    /\ cmbA \in Combos(backend)
    /\ cmbB \in Combos(backend)
    /\ cmbC \in Combos(backend)
    /\ cmbRes = NoSums
    /\ ConcIdle
    /\ ModIdle
    /\ WinIdle
    /\ HidIdle

NextCombination == Plus \/ PlusLeft \/ PlusRight

SpecCombination == InitCombination /\ [][NextCombination]_vars

InitThreads ==
    /\ backend = "macos"
    /\ env \in {e \in Envs("macos") :
                 e.layoutOk /\ e.hidOpenOk /\ e.attached = MacKeys}
    /\ KbIdle
    /\ VerIdle
    /\ StrIdle
    /\ InfoIdle
    /\ CmbIdle
    /\ ConcIdle
    /\ ModIdle
    /\ WinIdle
    /\ HidIdle

NextThreads ==
    \E t \in Threads :
        \/ CallInfo(t)
        \/ WriteField(t)
        \/ FinishField(t)
        \/ ClearInit(t)
        \/ ReturnInfo(t)

SpecThreads == InitThreads /\ [][NextThreads]_vars

NextString == Construct \/ Str

SpecString == InitString /\ [][NextString]_vars

----------------------------------------------------------------------------
(* Vocabulary of the properties *)

\* The native code the platform knows a Virtual Key by (0: none)
NativeCode(k) == IF backend = "x11" THEN XKeysymToKeycode(k) ELSE k

Mapped(k) == NativeCode(k) # 0 \/ backend # "x11"

\* The key of Virtual Key k is down in the live input state
KeyIsDown(k) == Mapped(k) /\ NativeCode(k) \in down

MacModifiers ==
    {MAC_Function, MAC_Shift_L, MAC_Shift_R, MAC_Option_L, MAC_Option_R,
     MAC_Command_L, MAC_Command_R, MAC_Control_L, MAC_Control_R}

ModifierFlag(k) ==
    CASE k \in {MAC_Shift_L, MAC_Shift_R} -> "Shift"
      [] k \in {MAC_Option_L, MAC_Option_R} -> "Alternate"
      [] k \in {MAC_Command_L, MAC_Command_R} -> "Command"
      [] k \in {MAC_Control_L, MAC_Control_R} -> "Control"
      [] k = MAC_Function -> "SecondaryFn"

DownBeforeUp(ev) ==
    \A i, j \in DOMAIN ev : (ev[i].down /\ ~ev[j].down) => i < j

\* What is_pressed(combo) returns when called in program state s
IsPressedIn(s, combo) == is_pressed(Fresh(s), combo, "zero").ret

\* What is_pressed(combo) returns when called in the current state
IsPressedNow(combo) == IsPressedIn(St, combo)

DisplayUsable == backend = "x11" => env.xserverUp

----------------------------------------------------------------------------
(* Properties *)

\* C1: click(c) is press(c) followed by release(c) and nothing else: the
\* events recorded for a click are the events press(c) produces followed by
\* the events release(c) then produces, every key-down before any key-up,
\* and the input state afterwards is the one release(c) leaves.
C1_ClickIsPressThenRelease ==
    [][ op' = "click" =>
          \E ub \in Outcomes :
            LET p == press(Fresh(St), arg', ub) IN
            IF p.raised # "none"
            THEN injected' = p.injected /\ raised' = p.raised
            ELSE LET r == release(Fresh(p), arg', ub) IN
                 /\ injected' = p.injected \o r.injected
                 /\ DownBeforeUp(injected')
                 /\ down' = r.down
                 /\ raised' = r.raised ]_vars

C1_Witness ==
    /\ op = "click"
    /\ Len(arg) = 2
    /\ Len(injected) = 4
    /\ injected[1].down /\ injected[2].down
    /\ ~injected[3].down /\ ~injected[4].down

\* C2 (as claimed): is_pressed(c) returns, and returns true exactly when
\* every Virtual Key stored in c is down in the live input state (stated for
\* the sessions whose display, on X11, did open).
C2_IsPressedIffAllDown ==
    (op = "is_pressed" /\ display # "null") =>
        /\ raised = "none"
        /\ retBool = (\A k \in Range(arg) : KeyIsDown(k))

\* C3 (as claimed): on X11 with the display open, a Virtual Key is a member
\* of pressed_keys() exactly when is_pressed of that key alone is true.
C3_PressedKeysExact ==
    (backend = "x11" /\ display = "open" /\ op = "pressed_keys") =>
        \A k \in X11Keys \cup Range(retCombo) :
            (k \in Range(retCombo)) <=> IsPressedNow(<<k>>)

\* C4 (as claimed): on every backend press(combo) injects a key-down event
\* for each Virtual Key stored in combo, modifier keys included.
C4_PressEveryKey ==
    (op = "press" /\ raised = "none" /\ display # "null") =>
        \A k \in Range(arg) :
            Mapped(k) =>
                \E i \in DOMAIN injected :
                    injected[i].code = NativeCode(k) /\ injected[i].down

\* C4 (amended): press injects key-down events only; on X11 and Win32 one
\* for each stored key that has a native code, modifier keys included
\* (nothing when the X display failed to open); on Carbon/IOKit one for each
\* stored non-modifier key, while a stored modifier key gets no event of its
\* own and its flag bit is set on every event posted.
C4_PressEveryKeyAmended ==
    op = "press" =>
        /\ \A i \in DOMAIN injected : injected[i].down
        /\ display = "null" => injected = <<>>
        /\ (backend \in {"x11", "win32"} /\ display # "null") =>
              \A k \in Range(arg) :
                  Mapped(k) =>
                      \E i \in DOMAIN injected :
                          injected[i] = Event(NativeCode(k), TRUE, {})
        /\ backend = "macos" =>
              Len(injected) = Cardinality(Range(arg) \ MacModifiers)
        /\ backend = "macos" =>
              \A k \in Range(arg) :
                  IF k \in MacModifiers
                  THEN \A i \in DOMAIN injected :
                          /\ injected[i].code # k
                          /\ ModifierFlag(k) \in injected[i].flags
                  ELSE \E i \in DOMAIN injected : injected[i].code = k

C4_Witness ==
    /\ op = "press"
    /\ backend = "macos"
    /\ arg = <<MAC_Shift_L, MAC_A>>
    /\ injected = <<Event(MAC_A, TRUE, {"Shift"})>>

C6_ModifierFolded ==
    (backend = "macos" /\ op = "press" /\ Len(arg) = 2) =>
        \A m \in Range(arg) \cap MacModifiers :
        \A k \in Range(arg) \ MacModifiers :
            /\ Len(injected) = 1
            /\ injected[1].code = k
            /\ injected[1].down
            /\ ModifierFlag(m) \in injected[1].flags
            /\ \A i \in DOMAIN injected : injected[i].code # m

C6_Witness ==
    /\ backend = "macos"
    /\ op = "press"
    /\ arg = <<MAC_A, MAC_Shift_R>>
    /\ Len(injected) = 1

\* C7 (as claimed): on every backend press({}) and release({}) inject no
\* event and raise nothing, and is_pressed({}) returns true and raises nothing.
C7_EmptyComboNoOp ==
    (op \in {"press", "release", "is_pressed"} /\ arg = <<>>) =>
        /\ injected = <<>>
        /\ raised = "none"
        /\ op = "is_pressed" => retBool

\* C8 (as claimed): on Carbon/IOKit, after a failed cache construction the
\* cache is empty, is_pressed(c) returns false for every non-empty c,
\* pressed_keys() returns the empty combination, and neither raises.
C8_FailedCacheDegrades ==
    (backend = "macos" /\ hidBuilt /\ (~env.layoutOk \/ ~env.hidOpenOk)) =>
        /\ keys = {}
        /\ (op = "is_pressed" /\ arg # <<>>) =>
              (raised = "none" /\ retBool = FALSE)
        /\ op = "pressed_keys" => (raised = "none" /\ retCombo = <<>>)

\* C9 (as claimed): on X11 with a null display, is_pressed returns false,
\* pressed_keys returns the empty combination, press and release do nothing,
\* and no operation nor the teardown passes the null display to a native
\* call or faults.
C9_NullDisplayDegrades ==
    (backend = "x11" /\ display = "null") =>
        /\ raised = "none"
        /\ \A i \in DOMAIN calls : ~calls[i].nulldpy
        /\ op = "is_pressed" => retBool = FALSE
        /\ op = "pressed_keys" => retCombo = <<>>
        /\ op \in {"press", "release"} => injected = <<>>

\* Lexicographic order on (major, minor, patch)
LexLess(a, b) ==
    \/ a.major < b.major
    \/ a.major = b.major /\ a.minor < b.minor
    \/ a.major = b.major /\ a.minor = b.minor /\ a.patch < b.patch

\* C10 (as claimed): a < b exactly when a precedes b lexicographically, and
\* <=, >, >= agree with that order.
C10_LexicographicOrder ==
    verRes.done =>
        /\ verRes.lt = LexLess(verA, verB)
        /\ verRes.le = (LexLess(verA, verB) \/ verA = verB)
        /\ verRes.gt = LexLess(verB, verA)
        /\ verRes.ge = (LexLess(verB, verA) \/ verA = verB)

----------------------------------------------------------------------------
(* Properties of the version strings *)

Max(S) == CHOOSE x \in S : \A y \in S : y <= x

DotsBefore(s, i) == Cardinality({j \in 1..(i - 1) : s[j] = "."})

\* Positions of the characters that end the reading: neither a digit nor
\* one of the two separators
Stops(s) ==
    {i \in 1..Len(s) : ~IsDigit(s[i]) /\ (s[i] # "." \/ DotsBefore(s, i) >= 2)}

\* What is read: the text before the first such character
TextRead(s) == IF Stops(s) = {} THEN s ELSE SubSeq(s, 1, Min(Stops(s)) - 1)

\* The digits of the n-th dotted field of p (empty when p has no such field)
FieldText(p, n) ==
    LET idx == {i \in 1..Len(p) : p[i] # "." /\ DotsBefore(p, i) = n - 1}
    IN IF idx = {} THEN <<>> ELSE SubSeq(p, Min(idx), Max(idx))

\* The number a run of digits denotes, as an unsigned holds it
RECURSIVE DecimalValue(_)
DecimalValue(run) ==
    IF run = <<>> THEN Zero32
    ELSE MulAdd10(DecimalValue(SubSeq(run, 1, Len(run) - 1)),
                  DigitVal(run[Len(run)]))

Lenient(s) ==
    LET p == TextRead(s)
    IN Version32(DecimalValue(FieldText(p, 1)), DecimalValue(FieldText(p, 2)),
                 DecimalValue(FieldText(p, 3)))

\* C11: constructing a version from any string yields a version: the
\* dotted fields of the text before the first character that is neither a
\* digit nor one of the two separators have their decimal values, every
\* field that text does not have is 0, and what follows the third field is
\* ignored.
C11_LenientParse ==
    /\ (vsFrom = "string" /\ vsPc >= 1) => vsVer = Lenient(vsStr)
    /\ (vsFrom = "version" /\ vsPc = 2) => vsVer2 = Lenient(vsStr)

\* a string cut short by a foreign character in its second field
C11_Witness ==
    /\ vsFrom = "string" /\ vsPc >= 1
    /\ Stops(vsStr) # {}
    /\ Len(TextRead(vsStr)) + 1 < Len(vsStr)
    /\ vsVer.major # Zero32 /\ vsVer.minor # Zero32 /\ vsVer.patch = Zero32

\* "M.m.p": three runs of digits without leading zeros, two separators
Canonical(s) ==
    /\ \A i \in 1..Len(s) : IsDigit(s[i]) \/ s[i] = "."
    /\ DotsBefore(s, Len(s) + 1) = 2
    /\ \A n \in 1..3 :
         LET f == FieldText(s, n)
         IN f # <<>> /\ (Len(f) > 1 => f[1] # "0")
    /\ s[1] # "." /\ s[Len(s)] # "."
    /\ \A i \in 1..(Len(s) - 1) : ~(s[i] = "." /\ s[i + 1] = ".")

\* C12: parsing v.str() yields v, and for a canonical string s "M.m.p"
\* without leading zeros version(s).str() is s.
C12_RoundTrip ==
    /\ (vsFrom = "version" /\ vsPc = 2) => vsVer2 = vsVer
    /\ (vsFrom = "string" /\ vsPc = 2 /\ Canonical(vsStr)) => vsStr2 = vsStr

----------------------------------------------------------------------------
(* Properties of os::info() *)

\* C13: once a call of info() (direct or through an accessor) has returned,
\* no call reads the underlying source again and the record stays as that
\* call left it, also when a step of the first read failed.
C13_ReadOnce ==
    [][(infoCalls >= 1 /\ ~infoRet.raised)
        => (infoReads' = infoReads /\ infoRec' = infoRec)]_vars

----------------------------------------------------------------------------
(* Properties of the combination operators *)

\* C14: a + b leaves a and b as they were and returns a combination whose
\* members are exactly the members of a and the members of b.
C14_PlusIsUnion ==
    [][("plus" \in cmbRes'.done /\ "plus" \notin cmbRes.done)
        => /\ cmbA' = cmbA
           /\ cmbB' = cmbB
           /\ Range(cmbRes'.plus) = Range(cmbA) \cup Range(cmbB)]_vars

\* two non-empty operands that share a key and differ in another
C14_Witness ==
    /\ "plus" \in cmbRes.done
    /\ Range(cmbA) \cap Range(cmbB) # {}
    /\ Range(cmbA) # Range(cmbB)
    /\ Range(cmbRes.plus) = Range(cmbA) \cup Range(cmbB)

\* C16: for three Virtual Keys a, b, c the combinations (a + b) + c and
\* a + (b + c) have the same members.
C16_PlusAssociative ==
    {"left", "right"} \subseteq cmbRes.done
        => Range(cmbRes.left) = Range(cmbRes.right)

\* both sums evaluated for three keys that are not all the same
C16_Witness ==
    /\ {"left", "right"} \subseteq cmbRes.done
    /\ cmbB # cmbC
    /\ Range(cmbRes.left) = Range(cmbA) \cup Range(cmbB) \cup Range(cmbC)

----------------------------------------------------------------------------
(* Properties of the provider operations, continued *)

\* C15: for every Virtual Key k and every keyboard state, is_pressed(k + k)
\* returns (or raises) what is_pressed({k}) does: a key stored twice is not
\* counted twice.
C15_DoubledKey ==
    \A k \in KeysOf(backend), ub \in Outcomes, order \in HashOrders :
        LET kk == is_pressed(Fresh(St), vk_plus(k, k, order), ub)
            k1 == is_pressed(Fresh(St), combination_list(<<k>>, order), ub)
        IN kk.ret = k1.ret /\ kk.st.raised = k1.st.raised

\* is_pressed was called with a key stored twice, and the key is down
C15_Witness ==
    /\ op = "is_pressed" /\ raised = "none"
    /\ Len(arg) = 2 /\ arg[1] = arg[2]
    /\ retBool
    /\ IsPressedNow(<<arg[1]>>)

KeyboardOps == {"press", "release", "click", "is_pressed"}

\* C17: press, release, is_pressed and click leave the combination of the
\* caller with the members it was passed with; the Carbon/IOKit modifier
\* extraction works on a copy.
C17_CallerUnchanged == op \in KeyboardOps => caller = arg

\* a press on Carbon/IOKit that extracted a modifier
C17_Witness ==
    /\ backend = "macos" /\ op = "press"
    /\ Range(arg) \cap MacModifiers # {}
    /\ Range(arg) \ MacModifiers # {}
    /\ Len(injected) < Len(arg)
    /\ caller = arg

CallsOf(log, fn) == Cardinality({i \in DOMAIN log : log[i].fn = fn})

\* Operations that need the display
NeedsDisplay ==
    {"press", "release", "click", "is_pressed", "pressed_keys",
     "mouse_press", "mouse_release", "mouse_click", "mouse_double_click"}

\* C18: on X11, whatever the order of keyboard and mouse operations, the
\* display is opened at most once, by the first operation that needs it,
\* and closed by the teardown of the process only; an opened display is
\* never replaced.
C18_DisplayOnce ==
    [][backend = "x11" =>
        /\ CallsOf(calls', "XOpenDisplay") <= 1
        /\ CallsOf(calls', "XOpenDisplay") = 1
             => (display = "unopened" /\ op' \in NeedsDisplay)
        /\ op' \in NeedsDisplay => display' \in {"open", "null"}
        /\ display # "unopened"
             => (display' = display \/ (op' = "teardown" /\ display' = "closed"))
        /\ CallsOf(calls', "XCloseDisplay") > 0 => op' = "teardown"]_vars

\* a mouse operation on the display that an earlier operation had opened
C18_Witness ==
    /\ backend = "x11" /\ display = "open"
    /\ op \in {"mouse_press", "mouse_click"}
    /\ CallsOf(calls, "XOpenDisplay") = 0
    /\ CallsOf(calls, "XTestFakeButtonEvent") > 0
    /\ down # {}

AllDownIn(d, combo) == \A k \in Range(combo) : NativeCode(k) \in d

\* C19: every call of is_pressed that returns computes its result from the
\* input state at the time of that call, whatever earlier calls saw.
C19_LiveState ==
    [][(op' = "is_pressed" /\ raised' = "none" /\ display' # "null")
        => retBool' = AllDownIn(down', arg')]_vars

\* is_pressed answers TRUE for keys that went down after the program started
C19_Witness ==
    /\ op = "is_pressed" /\ raised = "none" /\ display # "null"
    /\ arg # <<>>
    /\ retBool
    /\ AllDownIn(down, arg)

ButtonEvent(b, is_press) == Event(b, is_press, {"button"})

----------------------------------------------------------------------------
(* Properties of the Virtual Key values *)

AliasOf ==
    [Shift |-> "Shift_L", Control |-> "Control_L", Ctrl |-> "Control_L",
     Caps |-> "Caps_Lock", Enter |-> "Return", Esc |-> "Escape",
     Del |-> "Delete"]

\* C21: on each platform family every alias has the numeric value of its
\* canonical key: Enter of Return, Esc of Escape, Del of Delete, Shift of
\* Shift_L, Control and Ctrl of Control_L, Caps of Caps_Lock.
C21_AliasValues ==
    \A a \in DOMAIN AliasOf :
        vk_alias(backend)[a] = vk_canonical(backend)[AliasOf[a]]

\* a press of vk::Shift on Win32 injected the event of the left Shift key
C21_Witness ==
    /\ backend = "win32" /\ op = "press"
    /\ arg = <<vk_alias(backend).Shift>>
    /\ Len(injected) = 1
    /\ injected[1].code = vk_canonical(backend).Shift_L

----------------------------------------------------------------------------
(* Properties of concurrent first calls *)

\* C22: when several threads make the first call of info() at the same
\* time, the initialization body runs once and no thread has returned
\* while a field of the record is unassigned or being assigned.
C22_InitOnceAndWhole ==
    /\ cRuns <= 1
    /\ \A t \in Threads :
         cPc[t].stage = "returned" => \A f \in DOMAIN cRec : cRec[f] = "set"

----------------------------------------------------------------------------
(* Properties of the X11 backend, continued *)

\* C23: on X11 with the display open, press or release of a combination
\* with a key that has no native key code makes no injection for that key,
\* leaves no error behind, and injects the event of every other key.
C23_UnmappedKeySkipped ==
    (backend = "x11" /\ display = "open" /\ op \in {"press", "release"}) =>
        /\ \A i \in DOMAIN injected : injected[i].code # 0
        /\ ~xerror
        /\ \A k \in Range(arg) :
             Mapped(k) => \E i \in DOMAIN injected :
                             injected[i] = Event(NativeCode(k), op = "press", {})

----------------------------------------------------------------------------
(* Order of the injected events *)

\* The combination is the std::vector one
ListBacked == backend \in {"x11", "win32"}

\* C24: with the vector-backed combination (X11 with the display open,
\* Win32), press and release hand one key event per stored key to the
\* system, in the order the keys are stored; for a combination built as
\* a + b the event of a comes before the event of b.
C24_InsertionOrder ==
    (ListBacked /\ display # "null" /\ op \in {"press", "release"}) =>
        /\ injected = [i \in 1..Len(arg) |->
                         Event(NativeCode(arg[i]), op = "press", {})]
        /\ \A a, b \in KeysOf(backend) :
              arg = vk_plus(a, b, <<>>) =>
                  injected = <<Event(NativeCode(a), op = "press", {}),
                               Event(NativeCode(b), op = "press", {})>>

C24_Witness ==
    /\ backend = "x11" /\ display = "open" /\ op = "press"
    /\ arg = vk_plus(X11_Super_R, X11_A, <<>>)
    /\ Mapped(X11_Super_R) /\ Mapped(X11_A)
    /\ Len(injected) = 2
    /\ injected[1].code = NativeCode(X11_Super_R)
    /\ injected[1].code # injected[2].code

----------------------------------------------------------------------------
(* extract_modifiers *)

\* Left and right variant of each modifier, with its flag
ModifierPairs ==
    {<<MAC_Shift_L, MAC_Shift_R, "Shift">>,
     <<MAC_Option_L, MAC_Option_R, "Alternate">>,
     <<MAC_Command_L, MAC_Command_R, "Command">>,
     <<MAC_Control_L, MAC_Control_R, "Control">>}

\* C25: whether a combination holds the left variant of a modifier, the
\* right one or both, extract_modifiers returns the flags it returns for the
\* rest of the combination plus that modifier's flag, and neither variant
\* remains; the older revision returns the same flags and the same remaining
\* keys as the current one.
C25_VariantsAlike ==
    /\ \A p \in ModifierPairs :
          (emNew # <<>> /\ {p[1], p[2]} \cap Range(emCombo) # {}) =>
              /\ emNew[1].flags =
                    extract_modifiers(Remove(Remove(emCombo, p[1]), p[2])).flags
                        \cup {p[3]}
              /\ {p[1], p[2]} \cap Range(emNew[1].keys) = {}
    /\ \A p \in ModifierPairs :
          (emOld # <<>> /\ {p[1], p[2]} \cap Range(emCombo) # {}) =>
              /\ emOld[1].flags =
                    extract_modifiers_older(
                        Remove(Remove(emCombo, p[1]), p[2])).flags \cup {p[3]}
              /\ {p[1], p[2]} \cap Range(emOld[1].keys) = {}
    /\ (emNew # <<>> /\ emOld # <<>>) => emNew = emOld

C25_Witness ==
    /\ emCombo = <<MAC_Shift_R, MAC_Shift_L>>
    /\ emNew = <<[flags |-> {"Shift"}, keys |-> <<>>]>>
    /\ emOld = emNew

----------------------------------------------------------------------------
(* Win32 injection *)

\* C26: on Win32 a press or a release makes exactly one SendInput call,
\* which carries one keyboard record per stored key; the records of a
\* release all have the key-up flag (they arrive as key-up events) and no
\* record of a press has it.
C26_OneSendInput ==
    (backend = "win32" /\ op \in {"press", "release"}) =>
        /\ calls = <<Call("SendInput", FALSE, Len(arg))>>
        /\ Len(injected) = Len(arg)
        /\ \A i \in DOMAIN injected :
              /\ injected[i].code = arg[i]
              /\ injected[i].down = (op = "press")

C26_Witness ==
    /\ backend = "win32" /\ op = "release"
    /\ arg = <<WIN_Shift_L, WIN_A>>
    /\ calls = <<Call("SendInput", FALSE, 2)>>
    /\ \A i \in DOMAIN injected : ~injected[i].down

----------------------------------------------------------------------------
(* version::operator< as an order *)

\* C27: operator< is a strict order: a < b and b < a never both hold, and
\* a < b with b < c implies a < c.
C27_StrictOrder ==
    verRes.done =>
        /\ ~(verRes.lt /\ version_lt(verB, verA))
        /\ \A c \in Versions :
              (verRes.lt /\ version_lt(verB, c)) => version_lt(verA, c)

----------------------------------------------------------------------------
(* The Windows pretty name *)

\* (major, minor) of v is at or above (M, m) in lexicographic order
ReachesStep(v, M, m) == v.major > M \/ (v.major = M /\ v.minor >= m)

\* The suffix of the highest step the version reaches
HighestStep(v) ==
    IF ReachesStep(v, 10, 0) THEN to_string(U32(0, v.major))
    ELSE IF ReachesStep(v, 6, 3) THEN <<"8.1">>
    ELSE IF ReachesStep(v, 6, 2) THEN <<"8">>
    ELSE IF ReachesStep(v, 6, 1) THEN <<"7">>
    ELSE IF ReachesStep(v, 6, 0) THEN <<"Vista">>
    ELSE IF ReachesStep(v, 5, 2) THEN <<"XP 64-Bit Edition">>
    ELSE IF ReachesStep(v, 5, 1) THEN <<"XP">>
    ELSE IF ReachesStep(v, 5, 0) THEN <<"2000">>
    ELSE <<>>

\* C28: the Windows pretty name is "Windows " followed by the name of the
\* highest step of 10.0, 6.3, 6.2, 6.1, 6.0, 5.2, 5.1, 5.0 that the version
\* reaches in lexicographic (major, minor) order.
C28_HighestThreshold ==
    (wnName # <<>> /\ ReachesStep(wnVer, 5, 0)) =>
        wnName = <<"Windows", " ">> \o HighestStep(wnVer)

----------------------------------------------------------------------------
(* The HID cache *)

\* The keyboard enumerated last among those that report vk
LastBoard(vk) == Max({i \in DOMAIN hkBoards : vk \in hkBoards[i]})

\* C29: once built, the cache maps a Virtual Key to one element, the one of
\* the keyboard enumerated last among those that report the key, and
\* is_pressed of the key is the state of the key on that keyboard alone.
C29_LastKeyboardWins ==
    (hkPc = "built" /\ env.layoutOk /\ env.hidOpenOk) =>
        /\ DOMAIN hkCache = UNION {hkBoards[i] : i \in DOMAIN hkBoards}
        /\ \A vk \in DOMAIN hkCache : hkCache[vk] = LastBoard(vk)
        /\ hkRet \in {"true", "false"} =>
              (hkRet = "true" <=> hkArg \in hkDown[LastBoard(hkArg)])

C29_Witness ==
    /\ hkPc = "built"
    /\ Len(hkBoards) = 2
    /\ MAC_A \in hkBoards[1] \cap hkBoards[2]
    /\ MAC_A \in hkDown[1] /\ MAC_A \notin hkDown[2]
    /\ hkArg = MAC_A /\ hkRet = "false"

\* C30: no handle is released more often than it was acquired, and after
\* teardown every handle acquired while the cache was built has been
\* released.
C30_HandlesBalanced ==
    /\ hkPc # "unbuilt" => \A x \in Handles : hkRefs[x] >= 0
    /\ hkPc = "destroyed" => \A x \in Handles : hkRefs[x] = 0

====
